---- MODULE Spec2Model ----
(***************************************************************************)
(* Real-estate marketplace backend: the document store as the migration    *)
(* and the Mongoose schemas declare it (collections, unique indexes,       *)
(* defaults, validators), the Model.create calls of the integration tests, *)
(* and the Marketplace Consistency Engine operations (offers, bookings,    *)
(* ratings, favorites) working against that store.                         *)
(*                                                                         *)
(* The engine operations have no source file in the repository; they are   *)
(* written here from their description in the specification, while every   *)
(* store-level definition (indexes, defaults, enums, validators) follows   *)
(* src/migrate-mongo-config.js and the schemas of src/unnamed/part_000.    *)
(***************************************************************************)
EXTENDS Integers, Sequences, FiniteSets, TLC

(***************************************************************************)
(* Bounds of the model.                                                    *)
(***************************************************************************)
\* offers the offers collection holds at most
MaxOffers == 2
\* bookings the bookings collection holds at most
MaxBookings == 2
\* the last instant of the clock; tours are scheduled at 0..MaxTime
MaxTime == 2
\* view events that are started at most
MaxViews == 2
\* tests a jest run runs at most
MaxTests == 2
\* Model.create calls a test makes at most
MaxCreates == 2

(***************************************************************************)
(* Identities.  ObjectIds of users and properties are opaque strings; a    *)
(* document's own _id is its position in the collection.                   *)
(***************************************************************************)
Users == {"u1", "u2"}
Properties == {"p1", "p2"}
\* request-scoped units of work running concurrently (independent connections)
Clients == {"c1", "c2"}

\* e-mail inputs: two spellings of one address, and another address
Emails == {"a@x", "A@x", "b@x"}

\* userSchema.email `lowercase: true`: the setter Mongoose runs before a save
ToLowerCase(e) == IF e = "A@x" THEN "a@x" ELSE e

\* reviewSchema.rating validators
RatingMin == 1
RatingMax == 5

VARIABLES
    users,          \* the users collection: a sequence of documents
    reviews,        \* the reviews collection
    favorites,      \* the favorites collection
    offers,         \* the offers collection
    bookings,       \* the bookings collection
    properties,     \* per property: the denormalized aggregates of its document
    now,            \* the current time
    req,            \* per client: the store request in flight, or NoReq
    last,           \* the operation that completed last, and how it ended
    viewLog,        \* per property: the view events logged as applied and as failed
    notifications,  \* the notifications collection
    analytics,      \* the analytics collection
    db,             \* the store's catalog: its collections and their indexes
    mig,            \* the migration runner: the run in progress and the changelog
    server,         \* the server process: connectDatabase's promise, app.listen
    test            \* the jest run: the hook or test in progress

\* what the engine operations and the Model.create calls leave alone
infra == <<notifications, analytics, db, mig, server, test>>

vars == <<users, reviews, favorites, offers, bookings, properties, now, req, last, viewLog,
          notifications, analytics, db, mig, server, test>>

NoReq == [coll |-> "none"]
NoOp == [op |-> "none", result |-> "none"]

\* another client's insert with the same values under keys is in flight
Raced(c, keys) ==
    \E d \in Clients \ {c} :
        /\ req[d].coll = req[c].coll
        /\ \A k \in keys : req[d].doc[k] = req[c].doc[k]

(***************************************************************************)
(* The store.                                                              *)
(***************************************************************************)
\* Mutants: up() with one `{ unique: true }` option left out.
UniqueIndexesPlainEmail ==
    [ users |-> {}, properties |-> {{"slug"}}, offers |-> {}, bookings |-> {},
      reviews |-> {{"property", "user"}}, favorites |-> {{"user", "property"}},
      notifications |-> {}, analytics |-> {} ]

UniqueIndexesPlainReviews ==
    [ users |-> {{"email"}}, properties |-> {{"slug"}}, offers |-> {}, bookings |-> {},
      reviews |-> {}, favorites |-> {{"user", "property"}},
      notifications |-> {}, analytics |-> {} ]

UniqueIndexesPlainFavorites ==
    [ users |-> {{"email"}}, properties |-> {{"slug"}}, offers |-> {}, bookings |-> {},
      reviews |-> {{"property", "user"}}, favorites |-> {},
      notifications |-> {}, analytics |-> {} ]

\* The unique indexes up() creates, per collection, each as its set of keys.
\* Every other createIndex call of up() is a plain (non-unique) index.
UniqueIndexes ==
    [ users      |-> {{"email"}},
      properties |-> {{"slug"}},
      offers     |-> {},
      bookings   |-> {},
      reviews    |-> {{"property", "user"}},
      favorites  |-> {{"user", "property"}},
      notifications |-> {},
      analytics  |-> {} ]

\* A unique index rejects doc when a document of the collection, whatever its
\* other fields hold, has the same values under all keys of the index.
DuplicateKey(coll, docs, doc) ==
    \E keys \in UniqueIndexes[coll] :
        \E i \in DOMAIN docs : \A k \in keys : docs[i][k] = doc[k]

\* insertOne: the index check and the insert are one step of the store.
InsertOne(coll, docs, doc) ==
    IF DuplicateKey(coll, docs, doc) THEN docs ELSE Append(docs, doc)

InsertResult(coll, docs, doc) ==
    IF DuplicateKey(coll, docs, doc) THEN "E11000" ELSE "ok"

(***************************************************************************)
(* The catalog, and the migration that fills it.  up(db) and down(db) are   *)
(* sequences of awaited driver calls; each call is one step of the store.   *)
(* An index is its key pattern (field and kind, in order) and its unique    *)
(* option.                                                                 *)
(***************************************************************************)
CreateCollection(coll) ==
    [call |-> "createCollection", coll |-> coll, keys |-> <<>>, unique |-> FALSE]

\* db.collection(coll).createIndex(keys)
CreateIndex(coll, keys) ==
    [call |-> "createIndex", coll |-> coll, keys |-> keys, unique |-> FALSE]

\* db.collection(coll).createIndex(keys, { unique: true })
CreateUniqueIndex(coll, keys) ==
    [call |-> "createIndex", coll |-> coll, keys |-> keys, unique |-> TRUE]

Asc(f) == <<<<f, "1">>>>

\* the calls of up(db), in order
UpCalls ==
    << CreateCollection("users"),
       CreateUniqueIndex("users", Asc("email")),
       CreateIndex("users", Asc("role")),
       CreateIndex("users", Asc("isDeleted")),
       CreateIndex("users", Asc("isActive")),
       CreateCollection("properties"),
       CreateIndex("properties", <<<<"title", "text">>, <<"description", "text">>>>),
       CreateUniqueIndex("properties", Asc("slug")),
       CreateIndex("properties", Asc("type")),
       CreateIndex("properties", Asc("status")),
       CreateIndex("properties", Asc("price")),
       CreateIndex("properties", Asc("priceType")),
       CreateIndex("properties", Asc("bedrooms")),
       CreateIndex("properties", Asc("bathrooms")),
       CreateIndex("properties", Asc("city")),
       CreateIndex("properties", Asc("owner")),
       CreateIndex("properties", Asc("agent")),
       CreateIndex("properties", Asc("viewsCount")),
       CreateIndex("properties", Asc("boostScore")),
       CreateIndex("properties", Asc("isFeatured")),
       CreateIndex("properties", Asc("isDeleted")),
       CreateIndex("properties", <<<<"location", "2dsphere">>>>),
       CreateIndex("properties", <<<<"price", "1">>, <<"bedrooms", "1">>>>),
       CreateIndex("properties", <<<<"city", "1">>, <<"price", "1">>>>),
       CreateIndex("properties", <<<<"role", "1">>, <<"averageRating", "-1">>>>),
       CreateCollection("offers"),
       CreateIndex("offers", Asc("property")),
       CreateIndex("offers", Asc("buyer")),
       CreateIndex("offers", Asc("status")),
       CreateIndex("offers", Asc("isDeleted")),
       CreateIndex("offers", <<<<"property", "1">>, <<"buyer", "1">>>>),
       CreateCollection("bookings"),
       CreateIndex("bookings", Asc("property")),
       CreateIndex("bookings", Asc("buyer")),
       CreateIndex("bookings", Asc("scheduledDate")),
       CreateIndex("bookings", <<<<"property", "1">>, <<"scheduledDate", "1">>>>),
       CreateCollection("reviews"),
       CreateIndex("reviews", Asc("property")),
       CreateIndex("reviews", Asc("user")),
       CreateUniqueIndex("reviews", <<<<"property", "1">>, <<"user", "1">>>>),
       CreateCollection("favorites"),
       CreateIndex("favorites", Asc("user")),
       CreateIndex("favorites", Asc("property")),
       CreateUniqueIndex("favorites", <<<<"user", "1">>, <<"property", "1">>>>),
       CreateCollection("notifications"),
       CreateIndex("notifications", Asc("recipient")),
       CreateIndex("notifications", Asc("type")),
       CreateIndex("notifications", Asc("isRead")),
       CreateIndex("notifications", Asc("isDeleted")),
       CreateIndex("notifications", <<<<"recipient", "1">>, <<"isRead", "1">>>>),
       CreateCollection("analytics"),
       CreateIndex("analytics", Asc("entityType")),
       CreateIndex("analytics", Asc("entityId")),
       CreateIndex("analytics", Asc("eventType")),
       CreateIndex("analytics", Asc("userId")),
       CreateIndex("analytics", <<<<"createdAt", "-1">>>>),
       CreateIndex("analytics", <<<<"entityType", "1">>, <<"entityId", "1">>,
                                  <<"eventType", "1">>>>) >>

\* Mutant: down(db) without its last drop.
DownCallsKeepAnalytics ==
    << "users", "properties", "offers", "bookings", "reviews", "favorites",
       "notifications" >>

\* the collections down(db) drops, in order
DownCalls ==
    << "users", "properties", "offers", "bookings", "reviews", "favorites",
       "notifications", "analytics" >>

CollectionNames == DOMAIN UniqueIndexes

\* a database with no collection.  An index of the catalog is recorded as the
\* position in UpCalls of the createIndex call that defines it.
EmptyDb == [collections |-> {}, indexes |-> {}]

CallId(call) == CHOOSE n \in DOMAIN UpCalls : UpCalls[n] = call

\* the indexes of a collection of the catalog: key pattern and unique option
IndexesOf(d, coll) ==
    {[keys |-> UpCalls[n].keys, unique |-> UpCalls[n].unique] :
        n \in {m \in d.indexes : UpCalls[m].coll = coll}}

\* createCollection rejects (NamespaceExists) when the collection exists;
\* createIndex rejects (IndexOptionsConflict) when the collection has an index
\* of that key pattern with another unique option
CallRejects(d, call) ==
    IF call.call = "createCollection"
    THEN call.coll \in d.collections
    ELSE \E ix \in IndexesOf(d, call.coll) : ix.keys = call.keys /\ ix.unique # call.unique

\* the catalog after a call that does not reject; createIndex creates the
\* collection when it is missing, and changes nothing when the index exists
ApplyCall(d, call) ==
    IF call.call = "createCollection"
    THEN [d EXCEPT !.collections = @ \cup {call.coll}]
    ELSE [d EXCEPT !.collections = @ \cup {call.coll},
                   !.indexes = @ \cup {CallId(call)}]

\* db.collection(coll).drop(): the collection goes, and its indexes with it
DropCollection(d, coll) ==
    [d EXCEPT !.collections = @ \ {coll},
              !.indexes = {n \in @ : UpCalls[n].coll # coll}]

\* the catalog after the first n calls of up(db) on d
RECURSIVE AfterCalls(_, _)
AfterCalls(d, n) ==
    IF n = 0 THEN d ELSE ApplyCall(AfterCalls(d, n - 1), UpCalls[n])

\* the fields of a key pattern
KeyFields(keys) == {keys[i][1] : i \in DOMAIN keys}

\* the unique indexes of a collection of the catalog, each as its set of fields
UniqueOf(d, coll) == {KeyFields(ix.keys) : ix \in {x \in IndexesOf(d, coll) : x.unique}}

(***************************************************************************)
(* Model.create as the integration tests call it: Mongoose applies setters  *)
(* and defaults, validates, and sends one insert; the promise settles when  *)
(* the store has applied it.  Every document carries the isDeleted and      *)
(* deletedAt of the fields required of all models.                          *)
(***************************************************************************)
\* Mutant: documents are born deleted.
IsDeletedDefaultTrue == TRUE

\* userSchema.isDeleted default
IsDeletedDefault == FALSE

\* deletedAt is a Date that a new document does not have: <<>> when unset,
\* <<t>> when set to the instant t
UserDoc(email) ==
    [email |-> ToLowerCase(email), isDeleted |-> IsDeletedDefault, deletedAt |-> <<>>]

ReviewDoc(p, u, rating) ==
    [property |-> p, user |-> u, rating |-> rating, isDeleted |-> FALSE, deletedAt |-> <<>>]

FavoriteDoc(u, p) == [user |-> u, property |-> p, isDeleted |-> FALSE, deletedAt |-> <<>>]

ValidRating(rating) == rating >= RatingMin /\ rating <= RatingMax

\* User.create({ email, ... })
UserCreate(c, email) ==
    /\ req[c] = NoReq
    /\ req' = [req EXCEPT ![c] = [coll |-> "users", doc |-> UserDoc(email)]]
    /\ UNCHANGED <<users, reviews, favorites, offers, bookings, properties, now, last, viewLog, infra>>

\* Review.create({ property, user, rating }): a rating outside min..max is a
\* ValidationError raised before anything is sent.
ReviewCreate(c, p, u, rating) ==
    /\ req[c] = NoReq
    /\ IF ValidRating(rating)
       THEN /\ req' = [req EXCEPT ![c] = [coll |-> "reviews", doc |-> ReviewDoc(p, u, rating)]]
            /\ last' = last
       ELSE /\ req' = req
            /\ last' = [op |-> "Review.create", result |-> "ValidationError"]
    /\ UNCHANGED <<users, reviews, favorites, offers, bookings, properties, now, viewLog, infra>>

\* Favorite.create({ user, property })
FavoriteCreate(c, u, p) ==
    /\ req[c] = NoReq
    /\ req' = [req EXCEPT ![c] = [coll |-> "favorites", doc |-> FavoriteDoc(u, p)]]
    /\ UNCHANGED <<users, reviews, favorites, offers, bookings, properties, now, last, viewLog, infra>>

\* The store applies the insert of client c and the promise resolves or rejects.
StoreApplyUsers(c) ==
    /\ req[c].coll = "users"
    /\ users' = InsertOne("users", users, req[c].doc)
    /\ last' = [op |-> "User.create", result |-> InsertResult("users", users, req[c].doc),
                doc |-> req[c].doc, raced |-> Raced(c, {"email"})]
    /\ req' = [req EXCEPT ![c] = NoReq]
    /\ UNCHANGED <<reviews, favorites, offers, bookings, properties, now, viewLog, infra>>

StoreApplyReviews(c) ==
    /\ req[c].coll = "reviews"
    /\ reviews' = InsertOne("reviews", reviews, req[c].doc)
    /\ last' = [op |-> "Review.create", result |-> InsertResult("reviews", reviews, req[c].doc),
                doc |-> req[c].doc, raced |-> Raced(c, {"property", "user"})]
    /\ req' = [req EXCEPT ![c] = NoReq]
    /\ UNCHANGED <<users, favorites, offers, bookings, properties, now, viewLog, infra>>

StoreApplyFavorites(c) ==
    /\ req[c].coll = "favorites"
    /\ favorites' = InsertOne("favorites", favorites, req[c].doc)
    /\ last' = [op |-> "Favorite.create", result |-> InsertResult("favorites", favorites, req[c].doc),
                doc |-> req[c].doc, raced |-> Raced(c, {"user", "property"})]
    /\ req' = [req EXCEPT ![c] = NoReq]
    /\ UNCHANGED <<users, reviews, offers, bookings, properties, now, viewLog, infra>>

(***************************************************************************)
(* The aggregates of a property document.  averageRating is a Number: the   *)
(* quotient sum / count, kept here as the exact fraction in lowest terms,   *)
(* from which the sum is recovered as round(averageRating * ratingsCount).  *)
(***************************************************************************)
RECURSIVE GCD(_, _)
GCD(a, b) == IF b = 0 THEN a ELSE GCD(b, a % b)

Fraction(n, d) == LET g == GCD(n, d) IN [num |-> n \div g, den |-> d \div g]

\* Math.round of the non-negative quotient n / d
Round(n, d) == (2 * n + d) \div (2 * d)

\* Mutants: a default of 1 in place of 0.
RatingsCountDefaultOne == 0 + 1
FavoritesCountDefaultOne == 0 + 1

\* propertySchema defaults
AverageRatingDefault == 0
RatingsCountDefault == 0
ViewsCountDefault == 0
FavoritesCountDefault == 0

PropertyDoc ==
    [averageRating |-> Fraction(AverageRatingDefault, 1),
     ratingsCount |-> RatingsCountDefault,
     viewsCount |-> ViewsCountDefault,
     favoritesCount |-> FavoritesCountDefault]

\* the server process before startServer() is called
ServerInit == [connect |-> "none", connected |-> FALSE, listening |-> FALSE, logged |-> FALSE]

\* no jest run
TestInit == [phase |-> "none", tests |-> 0, creates |-> 0, key |-> 0]

\* the changelog of the migration runner holds the migration: up() has
\* completed, on an empty database
MigApplied == [phase |-> "idle", pc |-> 0, applied |-> TRUE, ended |-> "up", fromEmpty |-> TRUE]

\* Empty collections, the two properties created, no request in flight.
InitData ==
    /\ users = <<>>
    /\ reviews = <<>>
    /\ favorites = <<>>
    /\ offers = <<>>
    /\ bookings = <<>>
    /\ properties = [p \in Properties |-> PropertyDoc]
    /\ now = 0
    /\ req = [c \in Clients |-> NoReq]
    /\ last = NoOp
    /\ viewLog = [p \in Properties |-> [ok |-> 0, failed |-> 0]]
    /\ notifications = <<>>
    /\ analytics = <<>>
    /\ server = ServerInit
    /\ test = TestInit

\* The state after the migration's up() on an empty database, with the two
\* properties created.
InitStore ==
    /\ InitData
    /\ db = AfterCalls(EmptyDb, Len(UpCalls))
    /\ mig = MigApplied

\* rating inputs of Review.create: the validator's limits and their neighbours
RatingInputs == {RatingMin - 1, RatingMin, RatingMax, RatingMax + 1}

NextUsers ==
    \/ \E c \in Clients, e \in Emails : UserCreate(c, e)
    \/ \E c \in Clients : StoreApplyUsers(c)

NextReviewStore ==
    \/ \E c \in Clients, p \in Properties, u \in Users, r \in RatingInputs :
            ReviewCreate(c, p, u, r)
    \/ \E c \in Clients : StoreApplyReviews(c)

NextFavoriteStore ==
    \/ \E c \in Clients, u \in Users, p \in Properties : FavoriteCreate(c, u, p)
    \/ \E c \in Clients : StoreApplyFavorites(c)

SpecUsers == InitStore /\ [][NextUsers]_vars
SpecReviewStore == InitStore /\ [][NextReviewStore]_vars
SpecFavoriteStore == InitStore /\ [][NextFavoriteStore]_vars

(***************************************************************************)
(* Offer Negotiation Engine.  Its operations are described in section 4.1  *)
(* of the specification; the documents, the status enum, the default       *)
(* status and the indexes are those of offerSchema and up().               *)
(***************************************************************************)
\* offerSchema.status enum
OfferStatuses == {"pending", "countered", "accepted", "rejected", "withdrawn"}

\* offerSchema.status default
OfferStatusDefault == "pending"

\* Mutant: a rejected offer may still be acted on.
NonTerminalWithRejected == {"pending", "countered", "rejected"}

\* statuses with outgoing transitions; all others are terminal
NonTerminal == {"pending", "countered"}

\* propertySchema.owner (required) and propertySchema.agent (optional) of the
\* two properties
PropertyOwner == [p1 |-> "u1", p2 |-> "u2"]
PropertyAgent == [p1 |-> "u2", p2 |-> "nobody"]

\* the property that has an owner and no agent
DeskProperty == "p2"

\* Mutant: no ownership check.
IsAnyone(actor, p) == TRUE

IsOwnerOrAgent(actor, p) == actor = PropertyOwner[p] \/ actor = PropertyAgent[p]

\* amounts a buyer offers (0 is not a valid amount) and amounts a seller counters with
Amounts == {0, 1}
CounterAmounts == {2}

\* expiresAt is a Date that is not required: <<>> when the offer has none
OfferDocExpiring(p, b, amount, expiresAt) ==
    [property |-> p, buyer |-> b, amount |-> amount, expiresAt |-> expiresAt,
     status |-> OfferStatusDefault, isDeleted |-> FALSE, deletedAt |-> <<>>]

OfferDoc(p, b, amount) == OfferDocExpiring(p, b, amount, <<>>)

\* the duplicate check of create: a non-deleted, non-terminal offer of (b, p)
ActiveOffer(docs, b, p) ==
    \E i \in DOMAIN docs :
        /\ docs[i].buyer = b /\ docs[i].property = p
        /\ docs[i].status \in NonTerminal
        /\ ~docs[i].isDeleted

\* create, first round trip: the duplicate check (a read of the store) and
\* the amount check; when both pass the insert is sent.
OfferCreateCheckExpiring(c, b, p, amount, expiresAt) ==
    /\ req[c] = NoReq
    /\ Len(offers) + Cardinality({d \in Clients : req[d] # NoReq}) < MaxOffers
    /\ IF ActiveOffer(offers, b, p)
       THEN /\ last' = [op |-> "offer", result |-> "DuplicateActiveOffer"]
            /\ req' = req
       ELSE IF amount <= 0
       THEN /\ last' = [op |-> "offer", result |-> "InvalidAmount"]
            /\ req' = req
       ELSE /\ req' = [req EXCEPT ![c] = [coll |-> "offers",
                                           doc |-> OfferDocExpiring(p, b, amount, expiresAt)]]
            /\ last' = last
    /\ UNCHANGED <<users, reviews, favorites, offers, bookings, properties, now, viewLog, infra>>

\* create without an expiresAt
OfferCreateCheck(c, b, p, amount) == OfferCreateCheckExpiring(c, b, p, amount, <<>>)

\* create, second round trip: Offer.create, an insert into the offers
\* collection under the indexes of up().
OfferCreateWrite(c) ==
    /\ req[c].coll = "offers"
    /\ offers' = InsertOne("offers", offers, req[c].doc)
    /\ last' = [op |-> "offer",
                result |-> IF DuplicateKey("offers", offers, req[c].doc)
                           THEN "DuplicateActiveOffer" ELSE "ok"]
    /\ req' = [req EXCEPT ![c] = NoReq]
    /\ UNCHANGED <<users, reviews, favorites, bookings, properties, now, viewLog, infra>>

\* What a transition on offer i by actor ends with: the lookup filters
\* soft-deleted offers, then the state machine, then the actor.
TransitionResult(i, authorized) ==
    IF offers[i].isDeleted THEN "NotFound"
    ELSE IF offers[i].status \notin NonTerminal THEN "InvalidTransition"
    ELSE IF ~authorized THEN "NotAuthorized"
    ELSE "ok"

OfferCounter(i, actor, newAmount) ==
    LET r == TransitionResult(i, IsOwnerOrAgent(actor, offers[i].property)) IN
    /\ i \in DOMAIN offers
    /\ offers' = IF r = "ok"
                 THEN [offers EXCEPT ![i].status = "countered", ![i].amount = newAmount]
                 ELSE offers
    /\ last' = [op |-> "offer", result |-> r]
    /\ UNCHANGED <<users, reviews, favorites, bookings, properties, now, req, viewLog, infra>>

\* accept: the offer becomes accepted and, in the same batch, every other
\* non-deleted non-terminal offer of the property becomes rejected.
OfferAccept(i, actor) ==
    LET r == TransitionResult(i, IsOwnerOrAgent(actor, offers[i].property)) IN
    /\ i \in DOMAIN offers
    /\ offers' = IF r = "ok"
                 THEN [j \in DOMAIN offers |->
                        IF j = i THEN [offers[j] EXCEPT !.status = "accepted"]
                        ELSE IF /\ offers[j].property = offers[i].property
                                /\ offers[j].status \in NonTerminal
                                /\ ~offers[j].isDeleted
                             THEN [offers[j] EXCEPT !.status = "rejected"]
                             ELSE offers[j]]
                 ELSE offers
    /\ last' = [op |-> "offer", result |-> r]
    /\ UNCHANGED <<users, reviews, favorites, bookings, properties, now, req, viewLog, infra>>

OfferReject(i, actor) ==
    LET r == TransitionResult(i, IsOwnerOrAgent(actor, offers[i].property)) IN
    /\ i \in DOMAIN offers
    /\ offers' = IF r = "ok" THEN [offers EXCEPT ![i].status = "rejected"] ELSE offers
    /\ last' = [op |-> "offer", result |-> r]
    /\ UNCHANGED <<users, reviews, favorites, bookings, properties, now, req, viewLog, infra>>

OfferWithdraw(i, actor) ==
    LET r == TransitionResult(i, actor = offers[i].buyer) IN
    /\ i \in DOMAIN offers
    /\ offers' = IF r = "ok" THEN [offers EXCEPT ![i].status = "withdrawn"] ELSE offers
    /\ last' = [op |-> "offer", result |-> r]
    /\ UNCHANGED <<users, reviews, favorites, bookings, properties, now, req, viewLog, infra>>

\* soft delete of an offer: a state transition of the document, never a
\* removal; a no-op on an offer that is deleted already
OfferSoftDelete(i) ==
    /\ i \in DOMAIN offers
    /\ offers' = IF offers[i].isDeleted THEN offers
                 ELSE [offers EXCEPT ![i].isDeleted = TRUE, ![i].deletedAt = <<now>>]
    /\ last' = [op |-> "offer", result |-> "ok"]
    /\ UNCHANGED <<users, reviews, favorites, bookings, properties, now, req, viewLog, infra>>

NextOffers ==
    \/ \E c \in Clients, b \in Users, p \in Properties, a \in Amounts :
            OfferCreateCheck(c, b, p, a)
    \/ \E c \in Clients : OfferCreateWrite(c)
    \/ \E i \in DOMAIN offers, actor \in Users, a \in CounterAmounts :
            OfferCounter(i, actor, a)
    \/ \E i \in DOMAIN offers, actor \in Users : OfferAccept(i, actor)
    \/ \E i \in DOMAIN offers, actor \in Users : OfferReject(i, actor)
    \/ \E i \in DOMAIN offers, actor \in Users : OfferWithdraw(i, actor)
    \/ \E i \in DOMAIN offers : OfferSoftDelete(i)

SpecOffers == InitStore /\ [][NextOffers]_vars

\* One seller's desk: the offers both users make on the property that has an
\* owner and no agent.
NextOfferDesk ==
    \/ \E c \in Clients, b \in Users, a \in Amounts :
            OfferCreateCheck(c, b, DeskProperty, a)
    \/ \E c \in Clients : OfferCreateWrite(c)
    \/ \E i \in DOMAIN offers, actor \in Users, a \in CounterAmounts :
            OfferCounter(i, actor, a)
    \/ \E i \in DOMAIN offers, actor \in Users : OfferAccept(i, actor)
    \/ \E i \in DOMAIN offers, actor \in Users : OfferReject(i, actor)
    \/ \E i \in DOMAIN offers, actor \in Users : OfferWithdraw(i, actor)
    \/ \E i \in DOMAIN offers : OfferSoftDelete(i)

SpecOfferDesk == InitStore /\ [][NextOfferDesk]_vars

(***************************************************************************)
(* Claims about offers.                                                    *)
(***************************************************************************)
\* C1: at most one non-deleted offer with status pending or countered exists
\* per (buyer, property) pair, in every reachable state, creates running
\* concurrently included.
C1_OneActiveOfferPerPair ==
    \A i, j \in DOMAIN offers :
        ( /\ offers[i].buyer = offers[j].buyer
          /\ offers[i].property = offers[j].property
          /\ offers[i].status \in {"pending", "countered"}
          /\ offers[j].status \in {"pending", "countered"}
          /\ ~offers[i].isDeleted /\ ~offers[j].isDeleted ) => i = j

\* a status changes only from pending or countered, and only to countered,
\* accepted, rejected or withdrawn; no offer leaves the collection
StatusEdgesOnly ==
    \A i \in DOMAIN offers :
        /\ i \in DOMAIN offers'
        /\ offers'[i].status # offers[i].status =>
              /\ offers[i].status \in {"pending", "countered"}
              /\ offers'[i].status \in {"countered", "accepted", "rejected", "withdrawn"}

TransitionAttempt(i) ==
    \E actor \in Users :
        \/ \E a \in CounterAmounts : OfferCounter(i, actor, a)
        \/ OfferAccept(i, actor)
        \/ OfferReject(i, actor)
        \/ OfferWithdraw(i, actor)

TerminalStatuses == {"accepted", "rejected", "withdrawn"}

AtMostOneAccepted ==
    \A i, j \in DOMAIN offers :
        ( /\ offers[i].property = offers[j].property
          /\ offers[i].status = "accepted"
          /\ offers[j].status = "accepted" ) => i = j

\* the step in which offer i becomes accepted leaves no other non-deleted
\* offer of its property pending or countered
AcceptRejectsOthers ==
    \A i \in DOMAIN offers :
        (offers[i].status # "accepted" /\ offers'[i].status = "accepted")
            => \A j \in DOMAIN offers \ {i} :
                  ( /\ offers[j].property = offers[i].property
                    /\ offers[j].status \in {"pending", "countered"}
                    /\ ~offers[j].isDeleted ) => offers'[j].status = "rejected"

\* C11: in every reachable state at most one offer per property has status
\* accepted, accepts running concurrently included, and the step that accepts
\* an offer moves every other pending or countered offer of the property to
\* rejected.
C11_OneAcceptedPerProperty == []AtMostOneAccepted /\ [][AcceptRejectsOthers]_vars

\* the insert of a create that passed the duplicate check and finds, when the
\* store applies it, an active offer of its (buyer, property): the loser of a race
LosingCreate(c) ==
    /\ OfferCreateWrite(c)
    /\ ActiveOffer(offers, req[c].doc.buyer, req[c].doc.property)

UnauthorizedAttempt(i, actor) ==
    \/ /\ actor # PropertyOwner[offers[i].property]
       /\ actor # PropertyAgent[offers[i].property]
       /\ \/ \E a \in CounterAmounts : OfferCounter(i, actor, a)
          \/ OfferAccept(i, actor)
          \/ OfferReject(i, actor)
    \/ /\ actor # offers[i].buyer
       /\ OfferWithdraw(i, actor)

BookingStatuses == {"pending", "approved", "rejected", "completed", "cancelled"}

\* Mutant: a booking is born completed.
BookingStatusDefaultCompleted == "completed"

\* bookingSchema.status default
BookingStatusDefault == "pending"

\* bookingSchema stores no duration: every tour occupies a window of this
\* fixed length from its scheduledDate
SlotDuration == 2

\* the buyers who request tours
BookingBuyers == {"u1"}

BookingDoc(p, b, date) ==
    [property |-> p, buyer |-> b, scheduledDate |-> date, status |-> BookingStatusDefault]

\* Mutant: the test with the boundaries included.
OverlapInclusive(s1, s2) == s1 <= s2 + SlotDuration /\ s2 <= s1 + SlotDuration

\* [s1, s1 + SlotDuration) and [s2, s2 + SlotDuration) share an instant
Overlap(s1, s2) == s1 < s2 + SlotDuration /\ s2 < s1 + SlotDuration

\* the overlap check of approve: another booking of the property is approved
\* in an overlapping window
SlotTaken(docs, i) ==
    \E j \in DOMAIN docs :
        /\ j # i
        /\ docs[j].property = docs[i].property
        /\ docs[j].status = "approved"
        /\ Overlap(docs[j].scheduledDate, docs[i].scheduledDate)

\* schedule: no conflict check at creation; Booking.create inserts under the
\* (plain) indexes of up().
BookingSchedule(b, p, date) ==
    /\ Len(bookings) < MaxBookings
    /\ IF date < now
       THEN /\ bookings' = bookings
            /\ last' = [op |-> "booking", result |-> "InvalidSlot"]
       ELSE /\ bookings' = InsertOne("bookings", bookings, BookingDoc(p, b, date))
            /\ last' = [op |-> "booking", result |-> "ok"]
    /\ UNCHANGED <<users, reviews, favorites, offers, properties, now, req, viewLog, infra>>

\* approve, first round trip: the actor, the status and the overlap check (a
\* read of the store); when they pass the update is sent.
BookingApproveCheck(c, i, actor) ==
    /\ req[c] = NoReq
    /\ i \in DOMAIN bookings
    /\ IF ~IsOwnerOrAgent(actor, bookings[i].property)
       THEN /\ last' = [op |-> "booking", result |-> "NotAuthorized"]
            /\ req' = req
       ELSE IF bookings[i].status # "pending"
       THEN /\ last' = [op |-> "booking", result |-> "InvalidTransition"]
            /\ req' = req
       ELSE IF SlotTaken(bookings, i)
       THEN /\ last' = [op |-> "booking", result |-> "SlotConflict"]
            /\ req' = req
       ELSE /\ req' = [req EXCEPT ![c] = [coll |-> "bookings", id |-> i]]
            /\ last' = last
    /\ UNCHANGED <<users, reviews, favorites, offers, bookings, properties, now, viewLog, infra>>

\* approve, second round trip: the update of the one document, applied when it
\* is still pending; no index of the bookings collection can reject it.
BookingApproveWrite(c) ==
    LET i == req[c].id IN
    /\ req[c].coll = "bookings"
    /\ IF bookings[i].status = "pending"
       THEN /\ bookings' = [bookings EXCEPT ![i].status = "approved"]
            /\ last' = [op |-> "booking", result |-> "ok"]
       ELSE /\ bookings' = bookings
            /\ last' = [op |-> "booking", result |-> "InvalidTransition"]
    /\ req' = [req EXCEPT ![c] = NoReq]
    /\ UNCHANGED <<users, reviews, favorites, offers, properties, now, viewLog, infra>>

\* reject by the owner or agent, from pending
BookingReject(i, actor) ==
    /\ i \in DOMAIN bookings
    /\ IF ~IsOwnerOrAgent(actor, bookings[i].property)
       THEN /\ bookings' = bookings
            /\ last' = [op |-> "booking", result |-> "NotAuthorized"]
       ELSE IF bookings[i].status # "pending"
       THEN /\ bookings' = bookings
            /\ last' = [op |-> "booking", result |-> "InvalidTransition"]
       ELSE /\ bookings' = [bookings EXCEPT ![i].status = "rejected"]
            /\ last' = [op |-> "booking", result |-> "ok"]
    /\ UNCHANGED <<users, reviews, favorites, offers, properties, now, req, viewLog, infra>>

\* cancel, from pending or approved
BookingCancel(i) ==
    /\ i \in DOMAIN bookings
    /\ IF bookings[i].status \notin {"pending", "approved"}
       THEN /\ bookings' = bookings
            /\ last' = [op |-> "booking", result |-> "InvalidTransition"]
       ELSE /\ bookings' = [bookings EXCEPT ![i].status = "cancelled"]
            /\ last' = [op |-> "booking", result |-> "ok"]
    /\ UNCHANGED <<users, reviews, favorites, offers, properties, now, req, viewLog, infra>>

\* complete: only from approved, and only after scheduledDate has elapsed
BookingComplete(i) ==
    /\ i \in DOMAIN bookings
    /\ IF bookings[i].status # "approved" \/ ~(bookings[i].scheduledDate < now)
       THEN /\ bookings' = bookings
            /\ last' = [op |-> "complete", result |-> "InvalidTransition"]
       ELSE /\ bookings' = [bookings EXCEPT ![i].status = "completed"]
            /\ last' = [op |-> "complete", result |-> "ok"]
    /\ UNCHANGED <<users, reviews, favorites, offers, properties, now, req, viewLog, infra>>

\* time passes
Tick ==
    /\ now < MaxTime
    /\ now' = now + 1
    /\ UNCHANGED <<users, reviews, favorites, offers, bookings, properties, req, last, viewLog, infra>>

NextBookings ==
    \/ \E b \in BookingBuyers, p \in Properties, date \in 0..MaxTime : BookingSchedule(b, p, date)
    \/ \E c \in Clients, i \in DOMAIN bookings, actor \in Users :
            BookingApproveCheck(c, i, actor)
    \/ \E c \in Clients : BookingApproveWrite(c)
    \/ \E i \in DOMAIN bookings, actor \in Users : BookingReject(i, actor)
    \/ \E i \in DOMAIN bookings : BookingCancel(i)
    \/ \E i \in DOMAIN bookings : BookingComplete(i)
    \/ Tick

SpecBookings == InitStore /\ [][NextBookings]_vars

\* One seller's desk: the bookings of the property that has an owner and no
\* agent, handled by one unit of work at a time while time passes.
DeskClient == "c1"

NextBookingDesk ==
    \/ \E b \in BookingBuyers, date \in 0..MaxTime : BookingSchedule(b, DeskProperty, date)
    \/ \E i \in DOMAIN bookings, actor \in Users : BookingApproveCheck(DeskClient, i, actor)
    \/ BookingApproveWrite(DeskClient)
    \/ \E i \in DOMAIN bookings, actor \in Users : BookingReject(i, actor)
    \/ \E i \in DOMAIN bookings : BookingCancel(i)
    \/ \E i \in DOMAIN bookings : BookingComplete(i)
    \/ Tick

SpecBookingDesk == InitStore /\ [][NextBookingDesk]_vars

\* Approvals on their own: tours of both properties are requested, approved
\* by concurrent units of work, and cancelled, at one instant.
NextApprovals ==
    \/ \E b \in BookingBuyers, p \in Properties, date \in 0..MaxTime : BookingSchedule(b, p, date)
    \/ \E c \in Clients, i \in DOMAIN bookings, actor \in Users :
            BookingApproveCheck(c, i, actor)
    \/ \E c \in Clients : BookingApproveWrite(c)
    \/ \E i \in DOMAIN bookings : BookingCancel(i)

SpecApprovals == InitStore /\ [][NextApprovals]_vars

\* C2: no two bookings of one property are both approved with overlapping
\* windows [scheduledDate, scheduledDate + duration), in every reachable
\* state, approvals running concurrently included.
C2_NoOverlappingApproved ==
    \A i, j \in DOMAIN bookings :
        ( /\ i # j
          /\ bookings[i].property = bookings[j].property
          /\ bookings[i].status = "approved"
          /\ bookings[j].status = "approved" )
            => ~( /\ bookings[i].scheduledDate < bookings[j].scheduledDate + SlotDuration
                  /\ bookings[j].scheduledDate < bookings[i].scheduledDate + SlotDuration )

\* a booking becomes completed only from approved with its scheduledDate in
\* the past, and none is created completed
CompletedOnlyFromApproved ==
    \A i \in DOMAIN bookings' :
        IF i \in DOMAIN bookings
        THEN (bookings'[i].status = "completed" /\ bookings[i].status # "completed")
                => (bookings[i].status = "approved" /\ bookings[i].scheduledDate < now)
        ELSE bookings'[i].status # "completed"

\* a complete on a booking that is not approved, or not yet past, fails
CompleteEarlyFails ==
    \A i \in DOMAIN bookings :
        ( /\ BookingComplete(i)
          /\ (bookings[i].status # "approved" \/ now <= bookings[i].scheduledDate) )
            => (last'.result = "InvalidTransition" /\ bookings' = bookings)

\* a completed or cancelled booking keeps its status
CompletedCancelledStay ==
    \A i \in DOMAIN bookings :
        bookings[i].status \in {"completed", "cancelled"}
            => (i \in DOMAIN bookings' /\ bookings'[i].status = bookings[i].status)

SharesInstantWithApproved(i) ==
    \E j \in DOMAIN bookings \ {i} :
        /\ bookings[j].property = bookings[i].property
        /\ bookings[j].status = "approved"
        /\ \E t \in 0..(MaxTime + SlotDuration) :
              /\ bookings[i].scheduledDate <= t /\ t < bookings[i].scheduledDate + SlotDuration
              /\ bookings[j].scheduledDate <= t /\ t < bookings[j].scheduledDate + SlotDuration

\* the overlap test as approve applies it to a pending booking on behalf of
\* the owner or agent: SlotConflict exactly when the windows share an instant
ApproveTestsOverlap ==
    \A c \in Clients, i \in DOMAIN bookings, actor \in Users :
        ( /\ BookingApproveCheck(c, i, actor)
          /\ IsOwnerOrAgent(actor, bookings[i].property)
          /\ bookings[i].status = "pending" )
            => IF SharesInstantWithApproved(i)
               THEN last'.result = "SlotConflict" /\ req' = req
               ELSE req'[c] = [coll |-> "bookings", id |-> i]

\* C15: the overlap test of approve holds of [s1,e1) and [s2,e2) exactly when
\* s1 < e2 and s2 < e1: a booking that starts exactly when an approved booking
\* of the same property ends passes it and can be approved, and a booking
\* whose window shares an instant with an approved one fails with SlotConflict.
C15_OverlapTest == [][ApproveTestsOverlap]_vars

\* Two back-to-back tours of one property are both approved, the later one
\* by the approval that has just succeeded.
C15_Witness ==
    /\ \E i, j \in DOMAIN bookings :
          /\ bookings[i].property = bookings[j].property
          /\ bookings[i].status = "approved" /\ bookings[j].status = "approved"
          /\ bookings[j].scheduledDate = bookings[i].scheduledDate + SlotDuration
    /\ last.result = "ok"

(***************************************************************************)
(* Rating Aggregator (section 4.3 of the specification) over the reviews    *)
(* collection of reviewSchema and up() and the aggregates of propertySchema.*)
(* Each operation is one unit: the review write and the recomputation of    *)
(* the aggregate are applied together or not at all.                        *)
(***************************************************************************)
\* the position of the non-deleted document of (u, p) in docs, 0 when none
ActiveOf(docs, u, p) ==
    IF \E i \in DOMAIN docs : docs[i].user = u /\ docs[i].property = p /\ ~docs[i].isDeleted
    THEN CHOOSE i \in DOMAIN docs :
            docs[i].user = u /\ docs[i].property = p /\ ~docs[i].isDeleted
    ELSE 0

\* the sum the stored aggregate stands for
StoredSum(doc) == Round(doc.averageRating.num * doc.ratingsCount, doc.averageRating.den)

\* sum / count, 0 when count = 0
Average(sum, count) == IF count = 0 THEN Fraction(0, 1) ELSE Fraction(sum, count)

\* the aggregate of a property after its sum changed by dSum and its count by dCount
Recompute(doc, dSum, dCount) ==
    [doc EXCEPT !.averageRating = Average(StoredSum(doc) + dSum, doc.ratingsCount + dCount),
                !.ratingsCount = doc.ratingsCount + dCount]

UpsertReview(u, p, rating) ==
    LET i == ActiveOf(reviews, u, p) IN
    IF ~ValidRating(rating)
    THEN /\ last' = [op |-> "upsertReview", result |-> "InvalidRating"]
         /\ UNCHANGED <<users, reviews, favorites, offers, bookings, properties, now, req, viewLog, infra>>
    ELSE IF i # 0
    THEN \* an edit in place: delta = newRating - oldRating
         /\ reviews' = [reviews EXCEPT ![i].rating = rating]
         /\ properties' = [properties EXCEPT
                              ![p] = Recompute(@, rating - reviews[i].rating, 0)]
         /\ last' = [op |-> "upsertReview", result |-> "edited"]
         /\ UNCHANGED <<users, favorites, offers, bookings, now, req, viewLog, infra>>
    ELSE IF DuplicateKey("reviews", reviews, ReviewDoc(p, u, rating))
    THEN \* a creation that the store rejects: Review.create throws
         /\ last' = [op |-> "upsertReview", result |-> "E11000"]
         /\ UNCHANGED <<users, reviews, favorites, offers, bookings, properties, now, req, viewLog, infra>>
    ELSE \* a creation: count += 1, sum += rating
         /\ reviews' = InsertOne("reviews", reviews, ReviewDoc(p, u, rating))
         /\ properties' = [properties EXCEPT ![p] = Recompute(@, rating, 1)]
         /\ last' = [op |-> "upsertReview", result |-> "created"]
         /\ UNCHANGED <<users, favorites, offers, bookings, now, req, viewLog, infra>>

RemoveReview(u, p) ==
    LET i == ActiveOf(reviews, u, p) IN
    IF i = 0
    THEN /\ last' = [op |-> "removeReview", result |-> "NotFound"]
         /\ UNCHANGED <<users, reviews, favorites, offers, bookings, properties, now, req, viewLog, infra>>
    ELSE /\ reviews' = [reviews EXCEPT ![i].isDeleted = TRUE, ![i].deletedAt = <<now>>]
         /\ properties' = [properties EXCEPT ![p] = Recompute(@, 0 - reviews[i].rating, -1)]
         /\ last' = [op |-> "removeReview", result |-> "ok"]
         /\ UNCHANGED <<users, favorites, offers, bookings, now, req, viewLog, infra>>

\* rating inputs of upsertReview: the limits, their neighbours and one more
UpsertRatings == {RatingMin - 1, RatingMin, RatingMin + 1, RatingMax, RatingMax + 1}

NextRatings ==
    \/ \E u \in Users, p \in Properties, r \in UpsertRatings : UpsertReview(u, p, r)
    \/ \E u \in Users, p \in Properties : RemoveReview(u, p)

SpecRatings == InitStore /\ [][NextRatings]_vars

(***************************************************************************)
(* Counter Synchronizer, favorites (section 4.4 of the specification) over  *)
(* the favorites collection of favoriteSchema and up() and                  *)
(* propertySchema.favoritesCount.                                           *)
(***************************************************************************)
Favorite(u, p) ==
    IF ActiveOf(favorites, u, p) # 0
    THEN /\ last' = [op |-> "favorite", result |-> "AlreadyFavorited"]
         /\ UNCHANGED <<users, reviews, favorites, offers, bookings, properties, now, req, viewLog, infra>>
    ELSE IF DuplicateKey("favorites", favorites, FavoriteDoc(u, p))
    THEN \* Favorite.create throws: no increment follows
         /\ last' = [op |-> "favorite", result |-> "E11000"]
         /\ UNCHANGED <<users, reviews, favorites, offers, bookings, properties, now, req, viewLog, infra>>
    ELSE /\ favorites' = InsertOne("favorites", favorites, FavoriteDoc(u, p))
         /\ properties' = [properties EXCEPT ![p].favoritesCount = @ + 1]
         /\ last' = [op |-> "favorite", result |-> "ok"]
         /\ UNCHANGED <<users, reviews, offers, bookings, now, req, viewLog, infra>>

Unfavorite(u, p) ==
    LET i == ActiveOf(favorites, u, p) IN
    IF i = 0
    THEN /\ last' = [op |-> "unfavorite", result |-> "NotFound"]
         /\ UNCHANGED <<users, reviews, favorites, offers, bookings, properties, now, req, viewLog, infra>>
    ELSE /\ favorites' = [favorites EXCEPT ![i].isDeleted = TRUE, ![i].deletedAt = <<now>>]
         /\ properties' = [properties EXCEPT ![p].favoritesCount = @ - 1]
         /\ last' = [op |-> "unfavorite", result |-> "ok"]
         /\ UNCHANGED <<users, reviews, offers, bookings, now, req, viewLog, infra>>

NextFavorites ==
    \/ \E u \in Users, p \in Properties : Favorite(u, p)
    \/ \E u \in Users, p \in Properties : Unfavorite(u, p)

SpecFavorites == InitStore /\ [][NextFavorites]_vars


(***************************************************************************)
(* Counter Synchronizer, view events (section 4.4 of the specification)     *)
(* over propertySchema.viewsCount.  A read of a property returns to its      *)
(* caller and leaves the view event behind as a store request of its own,   *)
(* which the store applies as an atomic increment or which fails and is     *)
(* logged.                                                                  *)
(***************************************************************************)
\* Mutant: the new count is written from the value read with the property.
IncFromRead(current, seen) == seen + 1

\* the store's atomic increment: one added to the value the document holds
Inc(current, seen) == current + 1

\* Mutant: the failure of the view event reaches the caller of the read.
ViewFailurePropagated(result) == [result EXCEPT !.result = "error"]

\* what the caller of the read has after its view event failed: the failure
\* is swallowed
ViewFailureSwallowed(result) == result

\* view events started so far: applied, failed and in flight
ViewsStarted ==
    LET p1 == CHOOSE p \in Properties : TRUE
        p2 == CHOOSE p \in Properties : p # p1
    IN  viewLog[p1].ok + viewLog[p1].failed + viewLog[p2].ok + viewLog[p2].failed
          + Cardinality({c \in Clients : req[c].coll = "properties"})

\* a read of property p: the caller gets the property, the view event is sent
\* and not awaited
ViewProperty(c, p) ==
    /\ req[c] = NoReq
    /\ ViewsStarted < MaxViews
    /\ req' = [req EXCEPT ![c] = [coll |-> "properties", property |-> p,
                                    seen |-> properties[p].viewsCount]]
    /\ last' = [op |-> "read", result |-> "ok", property |-> p]
    /\ UNCHANGED <<users, reviews, favorites, offers, bookings, properties, now, viewLog, infra>>

\* the store applies the increment of client c's view event
ViewEventApply(c) ==
    LET p == req[c].property IN
    /\ req[c].coll = "properties"
    /\ properties' = [properties EXCEPT ![p].viewsCount = Inc(@, req[c].seen)]
    /\ viewLog' = [viewLog EXCEPT ![p].ok = @ + 1]
    /\ req' = [req EXCEPT ![c] = NoReq]
    /\ UNCHANGED <<users, reviews, favorites, offers, bookings, now, last, infra>>

\* the increment of client c's view event fails: logged, nothing written
ViewEventFail(c) ==
    LET p == req[c].property IN
    /\ req[c].coll = "properties"
    /\ viewLog' = [viewLog EXCEPT ![p].failed = @ + 1]
    /\ last' = ViewFailureSwallowed(last)
    /\ req' = [req EXCEPT ![c] = NoReq]
    /\ UNCHANGED <<users, reviews, favorites, offers, bookings, properties, now, infra>>

NextCounters ==
    \/ \E c \in Clients, p \in Properties : ViewProperty(c, p)
    \/ \E c \in Clients : ViewEventApply(c)
    \/ \E c \in Clients : ViewEventFail(c)
    \/ \E u \in Users, p \in Properties : Favorite(u, p)
    \/ \E u \in Users, p \in Properties : Unfavorite(u, p)

SpecCounters == InitStore /\ [][NextCounters]_vars

(***************************************************************************)
(* Claims about the aggregates.                                            *)
(***************************************************************************)
RECURSIVE SumOfRatings(_, _)
\* the sum of the ratings of the non-deleted reviews of p among docs
SumOfRatings(docs, p) ==
    IF docs = <<>> THEN 0
    ELSE (IF Head(docs).property = p /\ ~Head(docs).isDeleted THEN Head(docs).rating ELSE 0)
         + SumOfRatings(Tail(docs), p)

CountOf(docs, p) ==
    Cardinality({i \in DOMAIN docs : docs[i].property = p /\ ~docs[i].isDeleted})

AggregateMatchesReviews ==
    \A p \in Properties :
        /\ properties[p].ratingsCount = CountOf(reviews, p)
        /\ properties[p].averageRating.num * properties[p].ratingsCount
              = SumOfRatings(reviews, p) * properties[p].averageRating.den
        /\ properties[p].ratingsCount = 0 => properties[p].averageRating.num = 0

\* a step that ends an upsertReview as an edit changes no ratingsCount
EditKeepsCount ==
    last' = [op |-> "upsertReview", result |-> "edited"]
        => \A p \in Properties : properties'[p].ratingsCount = properties[p].ratingsCount

\* C3: after any sequence of upsertReview and removeReview operations, the
\* ratingsCount of every property is the number of its non-deleted reviews,
\* averageRating * ratingsCount is the sum of their ratings, the average is 0
\* when the count is 0, and an edit leaves ratingsCount unchanged.
C3_AggregateConsistent == []AggregateMatchesReviews /\ [][EditKeepsCount]_vars

\* Property p1 has two reviews whose average is no integer, the second one
\* edited last, and p2 has lost its only review.
C3_Witness ==
    /\ last = [op |-> "upsertReview", result |-> "edited"]
    /\ properties["p1"].ratingsCount = 2
    /\ properties["p1"].averageRating = [num |-> 7, den |-> 2]
    /\ properties["p2"].ratingsCount = 0
    /\ \E i \in DOMAIN reviews : reviews[i].property = "p2" /\ reviews[i].isDeleted

\* C6: after removeReview has soft-deleted the review of (user, property), an
\* upsertReview with a valid rating by that user on that property is a
\* creation that succeeds and adds 1 to ratingsCount.
C6_RecreateAfterRemove ==
    [][ \A u \in Users, p \in Properties, r \in UpsertRatings :
          ( /\ UpsertReview(u, p, r)
            /\ ValidRating(r)
            /\ ActiveOf(reviews, u, p) = 0
            /\ \E i \in DOMAIN reviews :
                  reviews[i].user = u /\ reviews[i].property = p /\ reviews[i].isDeleted )
              => /\ last'.result = "created"
                 /\ properties'[p].ratingsCount = properties[p].ratingsCount + 1 ]_vars

FavoritesCountMatches ==
    \A p \in Properties : properties[p].favoritesCount = CountOf(favorites, p)

AlreadyFavoritedIsNoOp ==
    \A u \in Users, p \in Properties :
        (Favorite(u, p) /\ ActiveOf(favorites, u, p) # 0)
            => /\ last'.result = "AlreadyFavorited"
               /\ favorites' = favorites
               /\ properties' = properties

\* C8: after any sequence of favorite and unfavorite operations, the
\* favoritesCount of every property is the number of (user, property) pairs
\* currently favorited, and favoriting a favorited pair fails with
\* AlreadyFavorited and changes neither the count nor the favorites.
C8_FavoritesCountConsistent == []FavoritesCountMatches /\ [][AlreadyFavoritedIsNoOp]_vars

\* Both users have favorited p1, one of them has favorited and unfavorited p2,
\* and a second favorite of a favorited pair has just failed.
C8_Witness ==
    /\ last = [op |-> "favorite", result |-> "AlreadyFavorited"]
    /\ properties["p1"].favoritesCount = 2
    /\ properties["p2"].favoritesCount = 0
    /\ \E i \in DOMAIN favorites : favorites[i].property = "p2" /\ favorites[i].isDeleted

(***************************************************************************)
(* Claims about the store's unique indexes.                                *)
(***************************************************************************)
SamePair(a, b) == a.property = b.property /\ a.user = b.user

ReviewsUniquePair ==
    \A i, j \in DOMAIN reviews : SamePair(reviews[i], reviews[j]) => i = j

ReviewCreateRejected ==
    \A c \in Clients :
        (StoreApplyReviews(c) /\ \E i \in DOMAIN reviews : SamePair(reviews[i], req[c].doc))
            => (reviews' = reviews /\ last'.result = "E11000")

\* C5: the reviews collection never holds two documents with the same
\* (property, user) pair, and a Review.create for a pair that a document
\* already has is rejected by the store and leaves the collection as it was,
\* whichever of two concurrent creates the store applies second.
C5_OneReviewPerPair == []ReviewsUniquePair /\ [][ReviewCreateRejected]_vars

\* Two creates for one pair were in flight together; the store applied one and
\* then rejected the other, which carried another rating.
C5_Witness ==
    /\ last.op = "Review.create" /\ last.result = "E11000"
    /\ \E c \in Clients : req[c].coll = "reviews" /\ SamePair(req[c].doc, last.doc)
    /\ Len(reviews) = 1 /\ SamePair(reviews[1], last.doc)
    /\ reviews[1].rating # last.doc.rating

FavoritesUniquePair ==
    \A i, j \in DOMAIN favorites : SamePair(favorites[i], favorites[j]) => i = j

FavoriteCreateRejected ==
    \A c \in Clients :
        (StoreApplyFavorites(c) /\ \E i \in DOMAIN favorites : SamePair(favorites[i], req[c].doc))
            => (favorites' = favorites /\ last'.result = "E11000")

\* C7: the favorites collection never holds two documents with the same
\* (user, property) pair, and a Favorite.create for a pair that a document
\* already has is rejected by the store and adds nothing.
C7_OneFavoritePerPair == []FavoritesUniquePair /\ [][FavoriteCreateRejected]_vars

\* A second Favorite.create of a stored pair was rejected while favorites of
\* other pairs were stored.
C7_Witness ==
    /\ last.op = "Favorite.create" /\ last.result = "E11000"
    /\ Len(favorites) = 2
    /\ \E i \in DOMAIN favorites : SamePair(favorites[i], last.doc)

UsersUniqueEmail ==
    \A i, j \in DOMAIN users : users[i].email = users[j].email => i = j

UserCreateRejected ==
    \A c \in Clients :
        (StoreApplyUsers(c) /\ \E i \in DOMAIN users : users[i].email = req[c].doc.email)
            => (users' = users /\ last'.result = "E11000")

\* C9: the users collection never holds two documents with the same email,
\* and a User.create with an email that a document already has is rejected
\* and adds nothing.
C9_UniqueEmail == []UsersUniqueEmail /\ [][UserCreateRejected]_vars

\* A User.create of a stored email was rejected, another user being stored too.
C9_Witness ==
    /\ last.op = "User.create" /\ last.result = "E11000"
    /\ Len(users) = 2
    /\ \E i \in DOMAIN users : users[i].email = last.doc.email

(***************************************************************************)
(* UserService of the service template (getById, create), and the soft      *)
(* delete of a user as section 4.5 of the specification describes it.       *)
(***************************************************************************)
\* Mutant: a query without the isDeleted filter.
VisibleAny(doc) == TRUE

\* `{ isDeleted: false }`, the filter every query carries
Visible(doc) == doc.isDeleted = FALSE

\* User.findOne({ _id: id, isDeleted: false }): the position of the document
\* found, 0 for null
FindUserById(id) ==
    IF id \in DOMAIN users /\ Visible(users[id]) THEN id ELSE 0

\* User.findOne({ email, isDeleted: false }); the filter is cast through the
\* schema, so the lowercase setter applies to it
FindUserByEmail(email) ==
    IF \E i \in DOMAIN users : users[i].email = ToLowerCase(email) /\ Visible(users[i])
    THEN CHOOSE i \in DOMAIN users : users[i].email = ToLowerCase(email) /\ Visible(users[i])
    ELSE 0

\* UserService.getById(id): throws AppError('User not found', 404) on null
UserServiceGetById(id) ==
    LET i == FindUserById(id) IN
    /\ last' = IF i = 0
               THEN [op |-> "getById", result |-> "NotFound", id |-> id]
               ELSE [op |-> "getById", result |-> "ok", id |-> id, doc |-> users[i]]
    /\ UNCHANGED <<users, reviews, favorites, offers, bookings, properties, now, req, viewLog, infra>>

\* UserService.create(data), up to its second await: the existence check,
\* AppError('Email already exists', 409) when it finds a user, else
\* User.create(data) is sent
UserServiceCreateCheck(c, email) ==
    /\ req[c] = NoReq
    /\ IF FindUserByEmail(email) # 0
       THEN /\ last' = [op |-> "UserService.create", result |-> "Conflict"]
            /\ req' = req
       ELSE /\ req' = [req EXCEPT ![c] = [coll |-> "users", doc |-> UserDoc(email)]]
            /\ last' = last
    /\ UNCHANGED <<users, reviews, favorites, offers, bookings, properties, now, viewLog, infra>>

\* soft delete of user id: a conditional update of the non-deleted document,
\* which matches nothing when the user is deleted already; success either way
UserSoftDelete(id) ==
    /\ id \in DOMAIN users
    /\ users' = IF Visible(users[id])
                THEN [users EXCEPT ![id].isDeleted = TRUE, ![id].deletedAt = <<now>>]
                ELSE users
    /\ last' = [op |-> "softDelete", result |-> "ok", id |-> id,
                repeated |-> users[id].isDeleted]
    /\ UNCHANGED <<reviews, favorites, offers, bookings, properties, now, req, viewLog, infra>>

\* ids looked up: those of the stored users and one that no user has
UserIds == 1..(Len(users) + 1)

NextUserService ==
    \/ \E id \in UserIds : UserServiceGetById(id)
    \/ \E c \in Clients, e \in Emails : UserServiceCreateCheck(c, e)
    \/ \E c \in Clients : StoreApplyUsers(c)
    \/ \E id \in UserIds : UserSoftDelete(id)
    \/ Tick

SpecUserService == InitStore /\ [][NextUserService]_vars

\* a user is deleted exactly when its deletedAt is set
DeletedHasDate ==
    \A i \in DOMAIN users : users[i].isDeleted <=> users[i].deletedAt # <<>>

\* what a soft delete does to a user that is not deleted, and to one that is
SoftDeleteOnce ==
    \A i \in DOMAIN users :
        UserSoftDelete(i) =>
            /\ last'.result = "ok"
            /\ IF users[i].isDeleted
               THEN users'[i] = users[i]
               ELSE users'[i].isDeleted /\ users'[i].deletedAt = <<now>>

\* no step brings a deleted user back or touches its deletedAt
DeletedStays ==
    \A i \in DOMAIN users :
        users[i].isDeleted =>
            /\ i \in DOMAIN users'
            /\ users'[i].isDeleted
            /\ users'[i].deletedAt = users[i].deletedAt

GetByIdFiltersDeleted ==
    \A id \in UserIds :
        UserServiceGetById(id) =>
            IF id \in DOMAIN users /\ ~users[id].isDeleted
            THEN last'.result = "ok" /\ last'.doc = users[id]
            ELSE last'.result = "NotFound"

\* the existence check of create finds only users that are not deleted
ExistenceCheckFiltersDeleted ==
    \A c \in Clients, e \in Emails :
        UserServiceCreateCheck(c, e) =>
            IF \E i \in DOMAIN users :
                  users[i].email = ToLowerCase(e) /\ ~users[i].isDeleted
            THEN last'.result = "Conflict" /\ req' = req
            ELSE req'[c] = [coll |-> "users", doc |-> UserDoc(e)]

TtlIndexesOnExpiresAt == [offers |-> {"expiresAt"}]

\* the TTL indexes up() creates, per collection, each as the field it is on
TtlIndexes == [offers |-> {}]

\* document d has outlived a TTL index of its collection
TtlExpired(coll, d) ==
    \E f \in TtlIndexes[coll] : d[f] # <<>> /\ d[f][1] < now

\* the store's TTL monitor: a background pass that removes what has expired
TtlMonitor ==
    /\ offers' = SelectSeq(offers, LAMBDA d : ~TtlExpired("offers", d))
    /\ UNCHANGED <<users, reviews, favorites, bookings, properties, now, req, last, viewLog, infra>>

\* the instants offers expire at
ExpiresAtInputs == {<<1>>}

NextOfferExpiry ==
    \/ \E c \in Clients, b \in Users, p \in Properties, e \in ExpiresAtInputs :
            OfferCreateCheckExpiring(c, b, p, 1, e)
    \/ \E c \in Clients : OfferCreateWrite(c)
    \/ \E i \in DOMAIN offers, a \in CounterAmounts :
            OfferCounter(i, PropertyOwner[offers[i].property], a)
    \/ \E i \in DOMAIN offers : OfferAccept(i, PropertyOwner[offers[i].property])
    \/ \E i \in DOMAIN offers : OfferReject(i, PropertyOwner[offers[i].property])
    \/ \E i \in DOMAIN offers : OfferWithdraw(i, offers[i].buyer)
    \/ Tick
    \/ TtlMonitor

SpecOfferExpiry == InitStore /\ [][NextOfferExpiry]_vars

\* the step is an operation of the engine on the offers
OfferOperation ==
    \/ \E c \in Clients : OfferCreateWrite(c)
    \/ \E i \in DOMAIN offers : TransitionAttempt(i)

\* time passing changes no stored field, and the offers change only in a
\* step of an operation
ExpiryIsLazy ==
    /\ now' # now =>
          /\ offers' = offers /\ users' = users /\ reviews' = reviews
          /\ favorites' = favorites /\ bookings' = bookings /\ properties' = properties
    /\ offers' # offers => OfferOperation

\* C20: expiry is lazy: time passing beyond an offer's expiresAt changes no
\* stored field, and a pending or countered offer past its expiresAt keeps
\* its status until an explicit operation transitions it.
C20_ExpiryIsLazy == [][ExpiryIsLazy]_vars

\* Time has passed beyond the expiresAt of a pending offer and of a countered
\* offer, and both are still stored with their status.
C20_Witness ==
    /\ Len(offers) = 2
    /\ offers[1].status = "pending" /\ offers[2].status = "countered"
    /\ offers[1].expiresAt # <<>> /\ offers[1].expiresAt[1] < now
    /\ offers[2].expiresAt # <<>> /\ offers[2].expiresAt[1] < now

(***************************************************************************)
(* Claims about the counters under concurrency.                            *)
(***************************************************************************)
Quiescent == \A c \in Clients : req[c] = NoReq

\* no increment is lost and no favorite is miscounted
CountersMatch ==
    \A p \in Properties :
        /\ properties[p].favoritesCount >= 0
        /\ Quiescent =>
              /\ properties[p].viewsCount = viewLog[p].ok
              /\ properties[p].favoritesCount = CountOf(favorites, p)

ViewFailureIsSilent ==
    /\ \A c \in Clients, p \in Properties :
          ViewProperty(c, p) => last' = [op |-> "read", result |-> "ok", property |-> p]
    /\ \A c \in Clients :
          ViewEventFail(c) => (properties' = properties /\ last' = last)

AwaitResumesAlways(promise) == TRUE

\* `await promise`: the function goes on when the promise is resolved; when it
\* is rejected the await throws and the function ends there
AwaitResumes(promise) == promise = "resolved"

\* startServer() is called: connectDatabase() is called and awaited
StartServer ==
    /\ server.connect = "none"
    /\ server' = [server EXCEPT !.connect = "pending"]
    /\ UNCHANGED <<users, reviews, favorites, offers, bookings, properties, now, req, last,
                   viewLog, notifications, analytics, db, mig, test>>

\* the connection is made and connectDatabase's promise resolves
ConnectDatabaseResolve ==
    /\ server.connect = "pending"
    /\ server' = [server EXCEPT !.connect = "resolved", !.connected = TRUE]
    /\ UNCHANGED <<users, reviews, favorites, offers, bookings, properties, now, req, last,
                   viewLog, notifications, analytics, db, mig, test>>

\* the connection fails and connectDatabase's promise rejects
ConnectDatabaseReject ==
    /\ server.connect = "pending"
    /\ server' = [server EXCEPT !.connect = "rejected"]
    /\ UNCHANGED <<users, reviews, favorites, offers, bookings, properties, now, req, last,
                   viewLog, notifications, analytics, db, mig, test>>

\* app.listen(config.port, callback)
AppListen ==
    /\ server.connect # "none"
    /\ AwaitResumes(server.connect)
    /\ ~server.listening
    /\ server' = [server EXCEPT !.listening = TRUE]
    /\ UNCHANGED <<users, reviews, favorites, offers, bookings, properties, now, req, last,
                   viewLog, notifications, analytics, db, mig, test>>

\* the callback of app.listen logs `Server running on port ...`
ListenCallback ==
    /\ server.listening
    /\ ~server.logged
    /\ server' = [server EXCEPT !.logged = TRUE]
    /\ UNCHANGED <<users, reviews, favorites, offers, bookings, properties, now, req, last,
                   viewLog, notifications, analytics, db, mig, test>>

\* a request is served: a service operation behind the listening socket
Served(operation) == server.listening /\ operation

NextServer ==
    \/ StartServer
    \/ ConnectDatabaseResolve
    \/ ConnectDatabaseReject
    \/ AppListen
    \/ ListenCallback
    \/ \E id \in UserIds : Served(UserServiceGetById(id))
    \/ \E c \in Clients, e \in Emails : Served(UserServiceCreateCheck(c, e))
    \/ \E c \in Clients : Served(StoreApplyUsers(c))
    \/ \E id \in UserIds : Served(UserSoftDelete(id))

SpecServer == InitStore /\ [][NextServer]_vars

ListeningIsConnected ==
    /\ server.listening => server.connect = "resolved" /\ server.connected
    /\ server.connect = "rejected" => ~server.listening

ListenAfterResolve ==
    (server'.listening /\ ~server.listening) => server.connect = "resolved"

\* C21: the server listens only after connectDatabase has resolved: whenever
\* it is listening the promise is resolved and the connection is made, the
\* step that starts listening is taken with the promise resolved, and with
\* the promise rejected the server is not listening and never will be.
C21_ListenAfterConnect ==
    /\ []ListeningIsConnected
    /\ [][ListenAfterResolve]_vars
    /\ [][server.connect = "rejected" => server'.connect = "rejected"]_vars

\* the server listens, has logged it, and has served the creation of a user
C21_Witness ==
    /\ server.listening
    /\ server.logged
    /\ server.connect = "resolved"
    /\ Len(users) = 1

(***************************************************************************)
(* Claims about UserService.create and the unique email index.             *)
(***************************************************************************)
\* C22: UserService.create fails a request for an email that is already
\* stored only with 'Email already exists' (409): the User.create it sends
\* is never rejected by the store with a duplicate-key error, whether the
\* email belongs to a soft-deleted user or two creates run concurrently.
C22_NoRawDuplicateKey ==
    [][ \A c \in Clients :
          StoreApplyUsers(c) => last'.result # "E11000" ]_vars

(***************************************************************************)
(* Claims about the favorite toggle.                                       *)
(***************************************************************************)
\* C23: after a user has favorited and then unfavorited a property (the
\* favorite is soft-deleted), a new favorite by that user on that property
\* succeeds and adds 1 to favoritesCount.
C23_FavoriteAgainAfterUnfavorite ==
    [][ \A u \in Users, p \in Properties :
          ( /\ Favorite(u, p)
            /\ ActiveOf(favorites, u, p) = 0
            /\ \E i \in DOMAIN favorites :
                  favorites[i].user = u /\ favorites[i].property = p /\ favorites[i].isDeleted )
              => /\ last'.result = "ok"
                 /\ properties'[p].favoritesCount = properties[p].favoritesCount + 1 ]_vars

(***************************************************************************)
(* The migration, run by the migration runner: up(db) runs when the         *)
(* changelog does not hold the migration and is recorded there when it      *)
(* completes; down(db) runs when the changelog holds it and removes it      *)
(* when it completes.  A run ends at the first call that rejects.           *)
(***************************************************************************)
\* an empty database and an empty changelog
MigInit == [phase |-> "idle", pc |-> 0, applied |-> FALSE, ended |-> "none", fromEmpty |-> FALSE]

MigrateUp ==
    /\ mig.phase = "idle"
    /\ ~mig.applied
    /\ mig' = [mig EXCEPT !.phase = "up", !.pc = 0, !.ended = "none",
                          !.fromEmpty = (db.collections = {})]
    /\ UNCHANGED <<users, reviews, favorites, offers, bookings, properties, now, req, last,
                   viewLog, notifications, analytics, db, server, test>>

\* the next call of up(db): applied, or rejected by the store
UpStep ==
    /\ mig.phase = "up"
    /\ mig.pc < Len(UpCalls)
    /\ LET call == UpCalls[mig.pc + 1] IN
       IF CallRejects(db, call)
       THEN /\ mig' = [mig EXCEPT !.phase = "idle", !.ended = "up failed"]
            /\ db' = db
       ELSE /\ mig' = [mig EXCEPT !.pc = @ + 1]
            /\ db' = ApplyCall(db, call)
    /\ UNCHANGED <<users, reviews, favorites, offers, bookings, properties, now, req, last,
                   viewLog, notifications, analytics, server, test>>

\* the next call of a run rejects for a reason of its own (the connection is lost)
CallFails ==
    /\ \/ mig.phase = "up" /\ mig.pc < Len(UpCalls)
       \/ mig.phase = "down" /\ mig.pc < Len(DownCalls)
    /\ mig' = [mig EXCEPT !.phase = "idle",
                          !.ended = IF mig.phase = "up" THEN "up failed" ELSE "down failed"]
    /\ UNCHANGED <<users, reviews, favorites, offers, bookings, properties, now, req, last,
                   viewLog, notifications, analytics, db, server, test>>

\* up(db) returns: the runner records the migration in the changelog
UpDone ==
    /\ mig.phase = "up"
    /\ mig.pc = Len(UpCalls)
    /\ mig' = [mig EXCEPT !.phase = "idle", !.applied = TRUE, !.ended = "up"]
    /\ UNCHANGED <<users, reviews, favorites, offers, bookings, properties, now, req, last,
                   viewLog, notifications, analytics, db, server, test>>

MigrateDown ==
    /\ mig.phase = "idle"
    /\ mig.applied
    /\ mig' = [mig EXCEPT !.phase = "down", !.pc = 0, !.ended = "none"]
    /\ UNCHANGED <<users, reviews, favorites, offers, bookings, properties, now, req, last,
                   viewLog, notifications, analytics, db, server, test>>

\* the next drop of down(db).  The drop of a collection that does not exist
\* rejects (ns not found) or resolves, by the version of the store.
DownStep ==
    /\ mig.phase = "down"
    /\ mig.pc < Len(DownCalls)
    /\ LET coll == DownCalls[mig.pc + 1] IN
       \/ /\ mig' = [mig EXCEPT !.pc = @ + 1]
          /\ db' = DropCollection(db, coll)
       \/ /\ coll \notin db.collections
          /\ mig' = [mig EXCEPT !.phase = "idle", !.ended = "down failed"]
          /\ db' = db
    /\ UNCHANGED <<users, reviews, favorites, offers, bookings, properties, now, req, last,
                   viewLog, notifications, analytics, server, test>>

\* down(db) returns: the runner removes the migration from the changelog
DownDone ==
    /\ mig.phase = "down"
    /\ mig.pc = Len(DownCalls)
    /\ mig' = [mig EXCEPT !.phase = "idle", !.applied = FALSE, !.ended = "down"]
    /\ UNCHANGED <<users, reviews, favorites, offers, bookings, properties, now, req, last,
                   viewLog, notifications, analytics, db, server, test>>

InitMigration ==
    /\ InitData
    /\ db = EmptyDb
    /\ mig = MigInit

NextMigration ==
    \/ MigrateUp
    \/ UpStep
    \/ UpDone
    \/ MigrateDown
    \/ DownStep
    \/ DownDone
    \/ CallFails

SpecMigration == InitMigration /\ [][NextMigration]_vars

\* the unique indexes of the catalog, each with its collection
UniqueIndexesOfDb ==
    UNION {{<<c, k>> : k \in UniqueOf(db, c)} : c \in CollectionNames}

UpCreatesEight ==
    (mig.phase = "idle" /\ mig.ended = "up" /\ mig.fromEmpty) =>
        /\ db.collections = {"users", "properties", "offers", "bookings", "reviews",
                             "favorites", "notifications", "analytics"}
        /\ \A c \in CollectionNames : UniqueOf(db, c) = UniqueIndexes[c]
        /\ UniqueIndexesOfDb = { <<"users", {"email"}>>, <<"properties", {"slug"}>>,
                                 <<"reviews", {"property", "user"}>>,
                                 <<"favorites", {"user", "property"}>> }

DownLeavesNone ==
    (mig.phase = "idle" /\ mig.ended = "down") => db.collections = {}

\* C24: when up has completed on an empty database the catalog holds exactly
\* the eight collections, with unique indexes exactly on users.email,
\* properties.slug, reviews(property, user) and favorites(user, property);
\* when a down run after a completed up has completed, none of the eight
\* collections is left.
C24_MigrationRoundTrip == UpCreatesEight /\ DownLeavesNone

\* up has completed, and the down run after it has completed
C24_Witness ==
    /\ mig.phase = "idle"
    /\ mig.ended = "down"
    /\ ~mig.applied
    /\ db = EmptyDb

(***************************************************************************)
(* The jest run of the integration tests with the hooks of the setup file:  *)
(* beforeAll connects, every test is followed by afterEach, afterAll         *)
(* disconnects.  Hooks and tests are awaited one after the other, and every  *)
(* Model.create of a test is awaited.  The run starts on an empty database   *)
(* whose collections and indexes are those the schemas of the test file      *)
(* declare, the unique ones being the four of up().                          *)
(***************************************************************************)
\* Mutant: a hook that leaves the users collection out.
HookCollectionsWithoutUsers ==
    << "properties", "offers", "bookings", "reviews", "favorites",
       "notifications", "analytics" >>

\* `for (const key in mongoose.connection.collections)`: the collections of
\* the models compiled on the connection, in the order they were compiled
HookCollections ==
    << "users", "properties", "offers", "bookings", "reviews", "favorites",
       "notifications", "analytics" >>

\* the documents of a collection (the properties collection is keyed by the
\* property, which stands for its slug)
Docs(coll) ==
    CASE coll = "users" -> users
      [] coll = "offers" -> offers
      [] coll = "bookings" -> bookings
      [] coll = "reviews" -> reviews
      [] coll = "favorites" -> favorites
      [] coll = "notifications" -> notifications
      [] coll = "analytics" -> analytics

NoProperties == [p \in {} |-> PropertyDoc]

\* collection coll holds docs from now on (props, for the properties
\* collection), every other collection is left alone
SetDocs(coll, docs, props) ==
    /\ users' = IF coll = "users" THEN docs ELSE users
    /\ offers' = IF coll = "offers" THEN docs ELSE offers
    /\ bookings' = IF coll = "bookings" THEN docs ELSE bookings
    /\ reviews' = IF coll = "reviews" THEN docs ELSE reviews
    /\ favorites' = IF coll = "favorites" THEN docs ELSE favorites
    /\ notifications' = IF coll = "notifications" THEN docs ELSE notifications
    /\ analytics' = IF coll = "analytics" THEN docs ELSE analytics
    /\ properties' = IF coll = "properties" THEN props ELSE properties

\* a unique index of the catalog rejects doc
DuplicateKeyIn(d, coll, docs, doc) ==
    \E keys \in UniqueOf(d, coll) :
        \E i \in DOMAIN docs : \A k \in keys : docs[i][k] = doc[k]

NotificationDoc(recipient) ==
    [recipient |-> recipient, type |-> "new_offer", isRead |-> FALSE, isDeleted |-> FALSE]

AnalyticsDoc(userId) ==
    [entityType |-> "property", entityId |-> "p1", eventType |-> "view", userId |-> userId]

\* the documents the tests create, each with its collection
TestDocs ==
    {<<"users", UserDoc(e)>> : e \in Emails}
        \cup {<<"offers", OfferDoc("p1", "u1", 1)>>}
        \cup {<<"bookings", BookingDoc("p1", "u1", 1)>>}
        \cup {<<"reviews", ReviewDoc("p1", "u1", r)>> : r \in {4, 5}}
        \cup {<<"favorites", FavoriteDoc("u1", p)>> : p \in Properties}
        \cup {<<"notifications", NotificationDoc("u1")>>}
        \cup {<<"analytics", AnalyticsDoc("u1")>>}

\* beforeAll: mongoose.connect(testDbUri)
BeforeAll ==
    /\ test.phase = "none"
    /\ test' = [test EXCEPT !.phase = "idle"]
    /\ UNCHANGED <<users, reviews, favorites, offers, bookings, properties, now, req, last,
                   viewLog, notifications, analytics, db, mig, server>>

\* the next test begins
TestBegin ==
    /\ test.phase = "idle"
    /\ test.tests < MaxTests
    /\ test' = [test EXCEPT !.phase = "test", !.tests = @ + 1, !.creates = 0]
    /\ UNCHANGED <<users, reviews, favorites, offers, bookings, properties, now, req, last,
                   viewLog, notifications, analytics, db, mig, server>>

\* `await Model.create(doc)` in a test, rejected or not
TestCreate(coll, doc) ==
    /\ test.phase = "test"
    /\ test.creates < MaxCreates
    /\ LET rejected == DuplicateKeyIn(db, coll, Docs(coll), doc) IN
       /\ SetDocs(coll, IF rejected THEN Docs(coll) ELSE Append(Docs(coll), doc), properties)
       /\ last' = [op |-> "create", coll |-> coll,
                   result |-> IF rejected THEN "E11000" ELSE "ok"]
    /\ test' = [test EXCEPT !.creates = @ + 1]
    /\ UNCHANGED <<now, req, viewLog, db, mig, server>>

\* `await Property.create({ slug, ... })` in a test
TestCreateProperty(p) ==
    /\ test.phase = "test"
    /\ test.creates < MaxCreates
    /\ LET rejected == p \in DOMAIN properties /\ {"slug"} \in UniqueOf(db, "properties") IN
       /\ SetDocs("properties", <<>>, IF rejected THEN properties
                                                  ELSE (p :> PropertyDoc) @@ properties)
       /\ last' = [op |-> "create", coll |-> "properties",
                   result |-> IF rejected THEN "E11000" ELSE "ok"]
    /\ test' = [test EXCEPT !.creates = @ + 1]
    /\ UNCHANGED <<now, req, viewLog, db, mig, server>>

\* the test returns and afterEach begins
TestEnd ==
    /\ test.phase = "test"
    /\ test' = [test EXCEPT !.phase = "afterEach", !.key = 0]
    /\ UNCHANGED <<users, reviews, favorites, offers, bookings, properties, now, req, last,
                   viewLog, notifications, analytics, db, mig, server>>

\* afterEach, one turn of its loop: `await collections[key].deleteMany({})`
AfterEachStep ==
    /\ test.phase = "afterEach"
    /\ test.key < Len(HookCollections)
    /\ SetDocs(HookCollections[test.key + 1], <<>>, NoProperties)
    /\ test' = [test EXCEPT !.key = @ + 1]
    /\ UNCHANGED <<now, req, last, viewLog, db, mig, server>>

\* afterEach returns
AfterEachDone ==
    /\ test.phase = "afterEach"
    /\ test.key = Len(HookCollections)
    /\ test' = [test EXCEPT !.phase = "idle"]
    /\ UNCHANGED <<users, reviews, favorites, offers, bookings, properties, now, req, last,
                   viewLog, notifications, analytics, db, mig, server>>

\* afterAll: mongoose.disconnect()
AfterAll ==
    /\ test.phase = "idle"
    /\ test' = [test EXCEPT !.phase = "done"]
    /\ UNCHANGED <<users, reviews, favorites, offers, bookings, properties, now, req, last,
                   viewLog, notifications, analytics, db, mig, server>>

InitTests ==
    /\ users = <<>>
    /\ reviews = <<>>
    /\ favorites = <<>>
    /\ offers = <<>>
    /\ bookings = <<>>
    /\ properties = NoProperties
    /\ notifications = <<>>
    /\ analytics = <<>>
    /\ now = 0
    /\ req = [c \in Clients |-> NoReq]
    /\ last = NoOp
    /\ viewLog = [p \in Properties |-> [ok |-> 0, failed |-> 0]]
    /\ db = AfterCalls(EmptyDb, Len(UpCalls))
    /\ mig = MigApplied
    /\ server = ServerInit
    /\ test = TestInit

NextTests ==
    \/ BeforeAll
    \/ TestBegin
    \/ \E t \in TestDocs : TestCreate(t[1], t[2])
    \/ \E p \in Properties : TestCreateProperty(p)
    \/ TestEnd
    \/ AfterEachStep
    \/ AfterEachDone
    \/ AfterAll

SpecTests == InitTests /\ [][NextTests]_vars

AllEmpty ==
    /\ \A coll \in CollectionNames \ {"properties"} : Docs(coll) = <<>>
    /\ DOMAIN properties = {}

\* a test that has created nothing yet finds every collection empty
TestsStartEmpty == (test.phase = "test" /\ test.creates = 0) => AllEmpty

\* the first Model.create of a test is never rejected by a unique index
FirstCreateNotRejected ==
    (test.phase = "test" /\ test.creates = 0 /\ test'.creates = 1) => last'.result = "ok"

\* a turn of the hook empties its collection and leaves the catalog as it is
HookRemovesDocumentsOnly ==
    (test.phase = "afterEach" /\ test'.key = test.key + 1) =>
        /\ db' = db
        /\ \A coll \in CollectionNames :
              coll = HookCollections[test.key + 1] =>
                  IF coll = "properties" THEN DOMAIN properties' = {}
                                         ELSE Docs(coll)' = <<>>

====
